---------------------------- MODULE Spec2Model ----------------------------
(***************************************************************************)
(* bfstats: converts BigFix deployment reports into Confluence tables.     *)
(* Model of src/src/bigfixstats.cpp and src/include/bigfix/bigfixstats.h.  *)
(*                                                                         *)
(* Strings (std::string) are sequences of one-character strings.           *)
(* A uint32_t is a pair <<hi, lo>> of 16-bit halves, so that arithmetic    *)
(* modulo 2^32 is exact.  A size_t is an integer in which npos (2^64 - 1)  *)
(* is written -1, so that npos + 4 = 3 as it is modulo 2^64.               *)
(***************************************************************************)
EXTENDS Integers, Sequences, FiniteSets, TLC

VARIABLES
    argv,          \* main: argv[1..argc-1], each a string
    disk,          \* the files that can be opened: file name -> sequence of lines
    kExtLen,       \* bf::kExt.length()  (constant of the build)
    kDateLen,      \* bf::kDate.length() (constant of the build)
    ubByte,        \* what the build yields for an out-of-range double -> uint8_t
    pc,            \* position of main
    status,        \* exit status of the process, -1 while it has none
    current_file,  \* main's current_file
    target_file,   \* main's target_file
    raw,           \* main's raw: group name -> count
    final,         \* main's final: sequence of ComputerGroup
    stdout,        \* what was printed, one tag per printf
    table,         \* the cells display() printed, one record per row
    calls,         \* the functions main has called, in order
    opened,        \* the file names handed to std::ifstream, in order
    badRead,       \* an iterator equal to raw->end() was dereferenced
    thrown,        \* the exception or signal that ended the process, if any
    cg,            \* a ComputerGroup object on its own
    shown          \* the values its accessors returned last

vars == <<argv, disk, kExtLen, kDateLen, ubByte, pc, status, current_file,
          target_file, raw, final, stdout, table, calls, opened, badRead,
          thrown, cg, shown>>

mainVars == <<argv, disk, pc, status, current_file, target_file, raw, final,
              stdout, table, calls, opened, badRead, thrown>>

---------------------------------------------------------------------------
(* Bounds of the model *)

MaxExtLen == 1
MaxDateLen == 2
LongNameLen == 256

---------------------------------------------------------------------------
(* Strings *)

NPOS == 0 - 1

Min(S) == CHOOSE x \in S : \A y \in S : x <= y

\* std::string::find(pat, pos): first index >= pos (0-based) where pat occurs
Find(s, pat, pos) ==
    IF pos < 0 \/ pos > Len(s) THEN NPOS
    ELSE LET hits == {i \in pos..(Len(s) - Len(pat)) :
                         SubSeq(s, i + 1, i + Len(pat)) = pat}
         IN  IF hits = {} THEN NPOS ELSE Min(hits)

\* std::string::substr(pos, n) for pos <= size(); n counts up to the end
Substr(s, pos, n) ==
    LET last == IF n < 0 \/ pos + n > Len(s) THEN Len(s) ELSE pos + n
    IN  SubSeq(s, pos + 1, last)

\* std::string(n, ' ') where n is a size_t: a wrapped (negative) n is larger
\* than max_size() and throws std::length_error
Spaces(n) ==
    IF n < 0 THEN [ok |-> FALSE, str |-> <<>>]
    ELSE [ok |-> TRUE, str |-> [i \in 1..n |-> " "]]

Digits == <<"0", "1", "2", "3", "4", "5", "6", "7", "8", "9">>

IsDigit(c) == \E d \in 1..10 : Digits[d] = c

DigitVal(c) == (CHOOSE d \in 1..10 : Digits[d] = c) - 1

---------------------------------------------------------------------------
(* uint32_t, uint16_t, uint8_t *)

U32(n) == <<n \div 65536, n % 65536>>

\* conversion of an int to uint32_t (two's complement for a negative int)
IntToU32(i) ==
    IF i >= 0 THEN U32(i)
    ELSE LET m == 0 - (i + 1)
         IN  <<65535 - (m \div 65536), 65535 - (m % 65536)>>

\* conversion of an int to uint16_t
IntToU16(i) == i % 65536

\* conversion of a size_t or int to uint8_t
ToU8(n) == n % 256

\* uint32_t + uint32_t
Add32(a, b) ==
    LET lo == a[2] + b[2]
        hi == a[1] + b[1] + (lo \div 65536)
    IN  <<hi % 65536, lo % 65536>>

\* the product of a uint32_t and a small k, as three 16-bit digits
MulSmall(u, k) ==
    LET lo == u[2] * k
        hi == u[1] * k + (lo \div 65536)
    IN  <<hi \div 65536, hi % 65536, lo % 65536>>

Geq3(a, b) ==
    \/ a[1] > b[1]
    \/ a[1] = b[1] /\ a[2] > b[2]
    \/ a[1] = b[1] /\ a[2] = b[2] /\ a[3] >= b[3]

\* std::to_string(uint32_t)
RECURSIVE ToString32(_)
ToString32(u) ==
    LET qh == u[1] \div 10
        t  == (u[1] % 10) * 65536 + u[2]
        q  == <<qh, t \div 10>>
        d  == Digits[(t % 10) + 1]
    IN  IF q = <<0, 0>> THEN <<d>> ELSE Append(ToString32(q), d)

\* std::stoi: leading blanks, an optional sign, then decimal digits; what
\* follows the digits is ignored.  err is "" or the exception thrown.
RECURSIVE SkipBlanks(_)
SkipBlanks(s) ==
    IF s # <<>> /\ Head(s) = " " THEN SkipBlanks(Tail(s)) ELSE s

\* the magnitude of the leading digits, or -1 when it exceeds 2^31
RECURSIVE Magnitude(_, _)
Magnitude(s, acc) ==
    IF s = <<>> \/ ~IsDigit(Head(s)) THEN acc
    ELSE LET d == DigitVal(Head(s))
         IN  IF acc < 0 \/ acc > 214748364 \/ (acc = 214748364 /\ d > 8)
             THEN Magnitude(Tail(s), 0 - 1)
             ELSE IF acc = 214748364 /\ d = 8
                  THEN Magnitude(Tail(s), 0 - 2)
                  ELSE Magnitude(Tail(s), acc * 10 + d)

Stoi(str) ==
    LET s    == SkipBlanks(str)
        neg  == s # <<>> /\ Head(s) = "-"
        body == IF s # <<>> /\ Head(s) \in {"-", "+"} THEN Tail(s) ELSE s
        mag  == Magnitude(body, 0)
    IN  IF body = <<>> \/ ~IsDigit(Head(body))
        THEN [err |-> "invalid_argument", val |-> 0]
        ELSE IF mag = 0 - 1 \/ (mag = 0 - 2 /\ ~neg)
             THEN [err |-> "out_of_range", val |-> 0]
             ELSE IF mag = 0 - 2
                  THEN [err |-> "", val |-> (0 - 2147483647) - 1]
                  ELSE [err |-> "", val |-> IF neg THEN 0 - mag ELSE mag]

---------------------------------------------------------------------------
(* class ComputerGroup *)

OS == <<"O", "S">>
MBDA == <<"M", "B", "D", "A">>
TOTAL == <<"T", "O", "T", "A", "L">>

\* ComputerGroup(name): current_ {0}, target_ {0}
ComputerGroup(name) == [name |-> name, current |-> <<0, 0>>, target |-> <<0, 0>>]

\* output.insert(i, ",") for i = length - 3, length - 6, ... while i > 0
RECURSIVE InsertCommas(_, _)
InsertCommas(output, i) ==
    IF i <= 0 THEN output
    ELSE InsertCommas(SubSeq(output, 1, i) \o <<",">>
                          \o SubSeq(output, i + 1, Len(output)), i - 3)

format(number) ==
    LET output == ToString32(number)
    IN  IF Len(output) > 3 THEN InsertCommas(output, Len(output) - 3)
        ELSE output

\* The h in 0..255 for which the two roundings of IEEE-754 binary64 leave
\* (2h + 1) / 200 * 100 below h + 1/2, so that round() yields h and not h + 1
\* (29 / 200 * 100 is 14.499999999999998).  The quotient current_ / target_
\* is correctly rounded, so the outcome depends on h alone.
HalfRoundsDown == {14, 28, 56, 57, 100, 101, 102, 103, 125, 126, 127,
                   213, 215, 217, 219, 238, 240, 242, 244}

\* round(static_cast<double>(current_) / target_ * 100) for target_ # 0,
\* capped at 256.  up is the number of k in 1..256 with
\* 200 * current_ >= (2k - 1) * target_: the quotient rounded half up.
rounded(g) ==
    LET c200 == MulSmall(g.current, 200)
        up   == Cardinality({k \in 1..256 :
                                Geq3(c200, MulSmall(g.target, 2 * k - 1))})
        half == up >= 1 /\ c200 = MulSmall(g.target, 2 * up - 1)
    IN  IF half /\ (up - 1) \in HalfRoundsDown THEN up - 1 ELSE up

\* percent() returns the rounded value as uint8_t.  A value of 256 or more
\* does not fit and its conversion is undefined: the build's ubByte comes
\* back.
percent(g) ==
    IF g.target # <<0, 0>>
    THEN IF rounded(g) >= 256 THEN ubByte ELSE rounded(g)
    ELSE 0

Max(S) == CHOOSE x \in S : \A y \in S : x >= y

widest(g) ==
    LET name    == ToU8(Len(g.name))
        current == ToU8(Len(format(g.current)))
        target  == ToU8(Len(format(g.target)))
        pct     == ToU8(Len(format(U32(percent(g)))) + 2)
    IN  Max({0, name, current, target, pct})

\* prefix + std::string(n, ' ')
Padded(prefix, n) ==
    LET sp == Spaces(n) IN [ok |-> sp.ok, str |-> prefix \o sp.str]

formatted_name(g) ==
    IF g.name = OS
    THEN Padded(g.name \o <<"*">>, widest(g) - Len(g.name) - 1)
    ELSE Padded(g.name, widest(g) - Len(g.name))

formatted_current(g) ==
    LET output == format(g.current)
    IN  Padded(output, widest(g) - Len(output) + 1)

formatted_target(g) ==
    LET output == format(g.target)
    IN  Padded(output, widest(g) - Len(output) + 1)

formatted_percent(g) ==
    LET output == <<"*">> \o ToString32(U32(percent(g))) \o <<"*">>
    IN  Padded(output, widest(g) - Len(output) + 1)

\* the four cells display() builds for one row
Cells(g) == [name    |-> formatted_name(g),
             current |-> formatted_current(g),
             target  |-> formatted_target(g),
             percent |-> formatted_percent(g)]

CellsOk(c) == c.name.ok /\ c.current.ok /\ c.target.ok /\ c.percent.ok

---------------------------------------------------------------------------
(* A ComputerGroup object on its own: its mutators and its accessors *)

LongName == [i \in 1..LongNameLen |-> "x"]

RowNames == {OS, <<"A">>, <<"W", "o", "r", "k", "s", "t", "a", "t", "i", "o", "n", "s">>,
             TOTAL, LongName}

RowCounts == {U32(0), U32(1), U32(8), U32(29), U32(50), U32(100), U32(200),
              U32(300), U32(1000), U32(70000), U32(1234567), <<65535, 65535>>}

UBBytes == {0, 44, 255}

NoShow == [seen |-> FALSE, percent |-> 0,
           cells |-> [name    |-> [ok |-> TRUE, str |-> <<>>],
                      current |-> [ok |-> TRUE, str |-> <<>>],
                      target  |-> [ok |-> TRUE, str |-> <<>>],
                      percent |-> [ok |-> TRUE, str |-> <<>>]]]

MainIdle ==
    /\ argv = <<>>
    /\ disk = <<>>
    /\ pc = "idle"
    /\ status = 0 - 1
    /\ current_file = <<>>
    /\ target_file = <<>>
    /\ raw = <<>>
    /\ final = <<>>
    /\ stdout = <<>>
    /\ table = <<>>
    /\ calls = <<>>
    /\ opened = <<>>
    /\ badRead = FALSE
    /\ thrown = ""

RowInit ==
    /\ MainIdle
    /\ kExtLen = 0
    /\ kDateLen = 1
    /\ ubByte \in UBBytes
    /\ \E n \in RowNames : cg = ComputerGroup(n)
    /\ shown = NoShow

set_name(name) ==
    /\ cg' = [cg EXCEPT !.name = name]
    /\ shown' = NoShow
    /\ UNCHANGED <<mainVars, kExtLen, kDateLen, ubByte>>

set_current(current) ==
    /\ cg' = [cg EXCEPT !.current = current]
    /\ shown' = NoShow
    /\ UNCHANGED <<mainVars, kExtLen, kDateLen, ubByte>>

set_target(target) ==
    /\ cg' = [cg EXCEPT !.target = target]
    /\ shown' = NoShow
    /\ UNCHANGED <<mainVars, kExtLen, kDateLen, ubByte>>

\* percent() and the four formatted_ accessors, as display() calls them
Show ==
    /\ ~shown.seen
    /\ shown' = [seen |-> TRUE, percent |-> percent(cg), cells |-> Cells(cg)]
    /\ UNCHANGED <<mainVars, kExtLen, kDateLen, ubByte, cg>>

RowNext ==
    \/ \E n \in RowNames : set_name(n)
    \/ \E c \in RowCounts : set_current(c)
    \/ \E t \in RowCounts : set_target(t)
    \/ Show

RowSpec == RowInit /\ [][RowNext]_vars

---------------------------------------------------------------------------
(* namespace bf *)

kRecord == <<"<", "t", "r", ">">>
kStart == <<"<", "t", "d", ">">>
kEnd == <<"<", "/", "t", "d", ">">>
kDelim == <<",">>

---------------------------------------------------------------------------
(* loadTarget *)

\* the body of the getline loop for one line; err is the exception of stoi
TargetLine(line) ==
    LET delim  == Find(line, kDelim, 0)
        group  == Substr(line, 0, delim)
        parsed == Stoi(Substr(line, delim + 1, Len(line)))
        target == IntToU16(parsed.val)
    IN  [err |-> parsed.err,
         cg  |-> [ComputerGroup(group) EXCEPT !.target = U32(target)]]

\* the getline loop: rows are pushed until the file ends or stoi throws
RECURSIVE TargetLines(_, _)
TargetLines(lines, rows) ==
    IF lines = <<>> THEN [err |-> "", rows |-> rows]
    ELSE LET r == TargetLine(Head(lines))
         IN  IF r.err # "" THEN [err |-> r.err, rows |-> rows]
             ELSE TargetLines(Tail(lines), Append(rows, r.cg))

---------------------------------------------------------------------------
(* loadCurrent *)

\* raw->emplace(group, count): an existing key keeps its value
Emplace(map, group, count) ==
    IF group \in DOMAIN map THEN map
    ELSE [k \in DOMAIN map \cup {group} |->
             IF k = group THEN count ELSE map[k]]

\* the while (start != npos) loop over one record line.  visited holds the
\* values start had at the loop head: the loop's control flow reads the line
\* and start only, so a value of start that comes back comes back for ever.
RECURSIVE ScanCells(_, _, _, _)
ScanCells(line, start, map, visited) ==
    IF start = NPOS THEN [end |-> "", raw |-> map]
    ELSE IF start \in visited THEN [end |-> "hung", raw |-> map]
    ELSE LET end1   == Find(line, kEnd, start)
             start1 == IF end1 # NPOS THEN start + Len(kStart) ELSE start
             group  == IF end1 # NPOS THEN Substr(line, start1, end1 - start1)
                       ELSE <<>>
             start2 == Find(line, kStart, start1 + Len(kStart))
             end2   == Find(line, kEnd, start2)
             start3 == IF end2 # NPOS THEN start2 + Len(kStart) ELSE start2
             parsed == IF end2 # NPOS
                       THEN Stoi(Substr(line, start3, end2 - start3))
                       ELSE [err |-> "", val |-> 0]
             start4 == Find(line, kStart, start3 + Len(kStart))
         IN  IF parsed.err # "" THEN [end |-> parsed.err, raw |-> map]
             ELSE ScanCells(line, start4,
                            Emplace(map, group, IntToU32(parsed.val)),
                            visited \cup {start})

\* the getline loop of loadCurrent
RECURSIVE CurrentLines(_, _)
CurrentLines(lines, map) ==
    IF lines = <<>> THEN [end |-> "", raw |-> map]
    ELSE LET line == Head(lines)
         IN  IF SubSeq(line, 1, Len(kRecord)) = kRecord
             THEN LET r == ScanCells(line, Find(line, kStart, 0), map, {})
                  IN  IF r.end # "" THEN r
                      ELSE CurrentLines(Tail(lines), r.raw)
             ELSE CurrentLines(Tail(lines), map)

\* a row whose name is OS is updated through raw->find("MBDA") unchecked
ReadsEnd(map, rows) ==
    /\ MBDA \notin DOMAIN map
    /\ OS \in DOMAIN map
    /\ \E i \in 1..Len(rows) : rows[i].name = OS

\* the update of the computer group collection; atEnd is what it->second
\* yields when it = raw->end()
Merge(map, rows, atEnd) ==
    [i \in 1..Len(rows) |->
        IF rows[i].name \in DOMAIN map
        THEN IF rows[i].name = OS
             THEN [rows[i] EXCEPT !.current =
                      Add32(map[OS], IF MBDA \in DOMAIN map THEN map[MBDA]
                                     ELSE atEnd)]
             ELSE [rows[i] EXCEPT !.current = map[rows[i].name]]
        ELSE rows[i]]

---------------------------------------------------------------------------
(* display *)

RECURSIVE Sum32(_, _)
Sum32(rows, field) ==
    IF rows = <<>> THEN <<0, 0>>
    ELSE Add32(Sum32(SubSeq(rows, 1, Len(rows) - 1), field),
               rows[Len(rows)][field])

\* TotalRow with the target total taken from the current counts
TotalRowOneSum(rows) ==
    [name |-> TOTAL, current |-> Sum32(rows, "current"),
     target |-> Sum32(rows, "current")]

\* ComputerGroup total("TOTAL") with the summed current and target
TotalRow(rows) ==
    [name |-> TOTAL, current |-> Sum32(rows, "current"),
     target |-> Sum32(rows, "target")]

\* filename.length() - kExt.length() - kDate.length(), a size_t: a negative
\* difference wraps and substr throws std::out_of_range
DateBegin(filename) == Len(filename) - kExtLen - kDateLen

---------------------------------------------------------------------------
(* The inputs of a run: the command line and the files on disk *)

DashH == <<"-", "h">>
DashC == <<"-", "c">>
DashT == <<"-", "t">>

TName == <<"t">>
CName == <<"c", "u", "r", ".", "d", "a", "t">>
CShort == <<"c">>

ArgLists ==
    { <<>>,
      <<DashH>>,
      <<DashT, TName, DashC, CName, DashH>>,
      <<DashH, DashC>>,
      <<DashC>>,
      <<DashT>>,
      <<DashT, TName, DashC>>,
      <<DashC, CName, DashT>>,
      <<DashC, DashT>>,
      <<DashT, TName, DashC, CName, DashC>>,
      <<DashT, TName, DashC, CName, DashT>>,
      <<DashT, TName, DashC, CName>>,
      <<DashC, CName, DashT, TName>>,
      <<DashT, TName, DashC, CShort>>,
      <<DashT, TName>>,
      <<DashC, CName>>,
      <<CName>> }

GA == <<"A">>
GB == <<"B">>
GZ == <<"Z">>

Dec(n) == ToString32(U32(n))

TargetContents ==
    { <<>>,
      <<OS \o kDelim \o Dec(100), GA \o kDelim \o Dec(50), GB \o kDelim \o Dec(0)>>,
      <<GA \o kDelim \o Dec(70000), OS \o kDelim \o Dec(65536)>>,
      <<OS \o kDelim \o Dec(40), GA \o kDelim \o <<"x">>>>,
      <<Dec(7)>>,
      <<LongName \o kDelim \o Dec(1)>> }

Cell(text) == kStart \o text \o kEnd

\* a record line of the report: <tr>, then a name cell and a count cell for
\* each <<name, count>> of pairs
RECURSIVE RecordLine(_)
RecordLine(pairs) ==
    IF pairs = <<>> THEN kRecord
    ELSE RecordLine(SubSeq(pairs, 1, Len(pairs) - 1))
             \o Cell(pairs[Len(pairs)][1]) \o Cell(pairs[Len(pairs)][2])

Report(lines) == [i \in 1..Len(lines) |-> RecordLine(lines[i])]

\* reports of well-formed record lines, as the pairs of each line
Reports ==
    { << << <<OS, Dec(5)>>, <<GA, Dec(300)>>, <<MBDA, Dec(7)>> >>,
         << <<GB, <<"-", "1">>>> >> >>,
      << << <<GB, <<"-", "1">>>> >>,
         << <<MBDA, Dec(7)>>, <<GA, Dec(300)>>, <<OS, Dec(5)>> >> >>,
      << << <<OS, Dec(5)>>, <<GA, Dec(23)>> >> >>,
      << << <<GA, Dec(1)>>, <<GA, Dec(2)>> >> >>,
      << << <<GA, Dec(2)>>, <<GA, Dec(1)>> >> >>,
      << << <<GZ, Dec(9)>> >> >>,
      << << <<OS, Dec(2147483647)>>, <<MBDA, Dec(2147483647)>>,
            <<GA, Dec(2147483647)>> >> >> }

CurrentContents ==
    {Report(r) : r \in Reports} \cup
    { <<>>,
      <<<<"j", "u", "n", "k">>, kRecord>>,
      <<kRecord \o Cell(OS) \o Cell(Dec(5)) \o Cell(GA)>>,
      <<kRecord \o kStart \o GA>>,
      <<kRecord \o Cell(GA) \o Cell(<<"x">>)>> }

\* a disk holding the target file (if any) under TName and the current file
\* (if any) under CName and CShort
DiskOf(t, c) ==
    [f \in (IF t = <<>> THEN {} ELSE {TName})
             \cup (IF c = <<>> THEN {} ELSE {CName, CShort}) |->
        IF f = TName THEN t[1] ELSE c[1]]

Disks ==
    {DiskOf(t, c) : t \in {<<>>} \cup {<<x>> : x \in TargetContents},
                    c \in {<<>>} \cup {<<x>> : x \in CurrentContents}}

\* what it->second may yield for it = raw->end()
AtEnd == {U32(0), U32(1), <<65535, 65535>>}

\* bf::kExt and bf::kDate are used by display() and defined in no file at
\* hand: any extension, and any date pattern that is not empty
kExtLens == 0..MaxExtLen
kDateLens == 1..MaxDateLen

---------------------------------------------------------------------------
(* main *)

Init ==
    /\ argv \in ArgLists
    /\ disk \in Disks
    /\ kExtLen \in kExtLens
    /\ kDateLen \in kDateLens
    /\ ubByte \in UBBytes
    /\ pc = "main"
    /\ status = 0 - 1
    /\ current_file = <<>>
    /\ target_file = <<>>
    /\ raw = <<>>
    /\ final = <<>>
    /\ stdout = <<>>
    /\ table = <<>>
    /\ calls = <<>>
    /\ opened = <<>>
    /\ badRead = FALSE
    /\ thrown = ""
    /\ cg = ComputerGroup(<<>>)
    /\ shown = NoShow

\* FindArg finding the last argument equal to flag instead of the first
FindArgLast(args, flag) ==
    IF \E i \in 1..Len(args) : args[i] = flag
    THEN Max({i \in 1..Len(args) : args[i] = flag})
    ELSE 0

\* std::find(args.begin(), args.end(), flag): the index of the first
\* argument equal to flag, 0 for args.end()
FindArg(args, flag) ==
    IF \E i \in 1..Len(args) : args[i] = flag
    THEN Min({i \in 1..Len(args) : args[i] = flag})
    ELSE 0

\* main up to the calls of the three steps
Main ==
    /\ pc = "main"
    /\ LET c == FindArg(argv, DashC)
           t == FindArg(argv, DashT)
       IN  IF argv = <<>> \/ FindArg(argv, DashH) # 0
           THEN /\ stdout' = Append(stdout, "usage")
                /\ calls' = Append(calls, "usage")
                /\ pc' = "exited"
                /\ status' = 0
                /\ UNCHANGED <<current_file, target_file>>
           ELSE IF c # 0 /\ c = Len(argv)
           THEN /\ stdout' = stdout \o <<"option -c requires an argument", "usage">>
                /\ calls' = Append(calls, "usage")
                /\ pc' = "exited"
                /\ status' = 1
                /\ UNCHANGED <<current_file, target_file>>
           ELSE IF t # 0 /\ t = Len(argv)
           THEN /\ stdout' = stdout \o <<"option -t requires an argument", "usage">>
                /\ calls' = Append(calls, "usage")
                /\ pc' = "exited"
                /\ status' = 1
                /\ current_file' = IF c # 0 THEN argv[c + 1] ELSE <<>>
                /\ UNCHANGED target_file
           ELSE /\ current_file' = IF c # 0 THEN argv[c + 1] ELSE <<>>
                /\ target_file' = IF t # 0 THEN argv[t + 1] ELSE <<>>
                /\ pc' = "loadTarget"
                /\ UNCHANGED <<stdout, calls, status>>
    /\ UNCHANGED <<argv, disk, kExtLen, kDateLen, ubByte, raw, final, table,
                   opened, badRead, thrown, cg, shown>>

LoadTarget ==
    /\ pc = "loadTarget"
    /\ calls' = Append(calls, "loadTarget")
    /\ opened' = Append(opened, target_file)
    /\ IF target_file \in DOMAIN disk
       THEN LET r == TargetLines(disk[target_file], final)
            IN  /\ final' = r.rows
                /\ thrown' = r.err
                /\ pc' = IF r.err = "" THEN "loadCurrent" ELSE "aborted"
                /\ UNCHANGED stdout
       ELSE /\ stdout' = Append(stdout, "Error: Could not open file")
            /\ pc' = "loadCurrent"
            /\ UNCHANGED <<final, thrown>>
    /\ UNCHANGED <<argv, disk, kExtLen, kDateLen, ubByte, status, current_file,
                   target_file, raw, table, badRead, cg, shown>>

LoadCurrent ==
    /\ pc = "loadCurrent"
    /\ calls' = Append(calls, "loadCurrent")
    /\ opened' = Append(opened, current_file)
    /\ IF current_file \in DOMAIN disk
       THEN LET r == CurrentLines(disk[current_file], raw)
            IN  /\ raw' = r.raw
                /\ UNCHANGED stdout
                /\ IF r.end = "hung"
                   THEN /\ pc' = "hung"
                        /\ UNCHANGED <<final, badRead, thrown>>
                   ELSE IF r.end # ""
                   THEN /\ pc' = "aborted"
                        /\ thrown' = r.end
                        /\ UNCHANGED <<final, badRead>>
                   ELSE IF ReadsEnd(r.raw, final)
                   THEN /\ badRead' = TRUE
                        /\ \/ \E v \in AtEnd :
                                 /\ final' = Merge(r.raw, final, v)
                                 /\ pc' = "display"
                                 /\ UNCHANGED thrown
                           \/ /\ pc' = "aborted"
                              /\ thrown' = "SIGSEGV"
                              /\ UNCHANGED final
                   ELSE /\ final' = Merge(r.raw, final, <<0, 0>>)
                        /\ pc' = "display"
                        /\ UNCHANGED <<badRead, thrown>>
       ELSE /\ stdout' = Append(stdout, "Error: Could not open file")
            /\ pc' = "display"
            /\ UNCHANGED <<raw, final, badRead, thrown>>
    /\ UNCHANGED <<argv, disk, kExtLen, kDateLen, ubByte, status, current_file,
                   target_file, table, cg, shown>>

Display ==
    /\ pc = "display"
    /\ calls' = Append(calls, "display")
    /\ IF DateBegin(current_file) < 0
       THEN /\ pc' = "aborted"
            /\ thrown' = "out_of_range"
            /\ UNCHANGED <<final, stdout, table, status>>
       ELSE LET rows  == Append(final, TotalRow(final))
                cells == [i \in 1..Len(rows) |-> Cells(rows[i])]
            IN  /\ final' = rows
                /\ IF \A i \in 1..Len(rows) : CellsOk(cells[i])
                   THEN /\ stdout' = stdout \o <<"raw", "table">>
                        /\ table' = cells
                        /\ pc' = "exited"
                        /\ status' = 0
                        /\ UNCHANGED thrown
                   ELSE /\ stdout' = Append(stdout, "raw")
                        /\ pc' = "aborted"
                        /\ thrown' = "length_error"
                        /\ UNCHANGED <<table, status>>
    /\ UNCHANGED <<argv, disk, kExtLen, kDateLen, ubByte, current_file,
                   target_file, raw, opened, badRead, cg, shown>>

Next == Main \/ LoadTarget \/ LoadCurrent \/ Display

Spec == Init /\ [][Next]_vars

---------------------------------------------------------------------------
(* Properties of a ComputerGroup, checked under RowSpec *)

\* C1 (as stated): whenever percent() has been read, it returned 0 for a
\* target of 0 and otherwise round(current / target * 100), the value the
\* code rounds before it returns it (for 50 and 100 that is 50).
C1_PercentIsRounded ==
    shown.seen =>
        IF cg.target = <<0, 0>> THEN shown.percent = 0
        ELSE shown.percent = rounded(cg)

\* the width W the claim C9 gives for a row
TrueWidth(g) ==
    Max({Len(g.name), Len(format(g.current)), Len(format(g.target)),
         Len(ToString32(U32(percent(g)))) + 2})

\* C9 (as stated): whenever the four formatted cells of a row have been
\* read, none of them was built with a negative padding length, the name
\* cell has length W and the three other cells have length W + 1.
C9_CellsPaddedToWidth ==
    shown.seen =>
        /\ CellsOk(shown.cells)
        /\ Len(shown.cells.name.str) = TrueWidth(cg)
        /\ Len(shown.cells.current.str) = TrueWidth(cg) + 1
        /\ Len(shown.cells.target.str) = TrueWidth(cg) + 1
        /\ Len(shown.cells.percent.str) = TrueWidth(cg) + 1

---------------------------------------------------------------------------
(* Properties of a run of main, checked under Spec *)

\* the exact sum of a field over rows, as three 16-bit digits
RECURSIVE SumWide(_, _)
SumWide(rows, field) ==
    IF rows = <<>> THEN <<0, 0, 0>>
    ELSE LET s  == SumWide(Tail(rows), field)
             v  == Head(rows)[field]
             lo == s[3] + v[2]
             hi == s[2] + v[1] + (lo \div 65536)
         IN  <<s[1] + (hi \div 65536), hi % 65536, lo % 65536>>

\* C2 (as stated): a step of display() that returns appends one row named
\* TOTAL whose current and target are the sums of current and of target
\* over the rows there were, and leaves those rows as they were.
C2_TotalIsExactSum ==
    [][pc = "display" /\ pc' = "exited" =>
          LET c == SumWide(final, "current")
              t == SumWide(final, "target")
          IN  /\ c[1] = 0
              /\ t[1] = 0
              /\ final' = Append(final, [name    |-> TOTAL,
                                         current |-> <<c[2], c[3]>>,
                                         target  |-> <<t[2], t[3]>>])]_vars

\* C2 (amended): a step of display() that returns appends one row named
\* TOTAL whose current and target are the sums, modulo 2^32, of current and
\* of target over the rows there were, and leaves those rows as they were.
C2_TotalIsSumMod32 ==
    [][pc = "display" /\ pc' = "exited" =>
          LET c == SumWide(final, "current")
              t == SumWide(final, "target")
          IN  final' = Append(final, [name    |-> TOTAL,
                                      current |-> <<c[2], c[3]>>,
                                      target  |-> <<t[2], t[3]>>])]_vars

\* display() has returned on three rows or more whose current counts sum
\* to 2^32 or more
C2_Witness ==
    /\ pc = "exited"
    /\ status = 0
    /\ table # <<>>
    /\ Len(final) >= 4
    /\ final[Len(final)].name = TOTAL
    /\ SumWide(SubSeq(final, 1, Len(final) - 1), "current")[1] > 0
    /\ final[Len(final)].target # <<0, 0>>

RECURSIVE Flatten(_)
Flatten(lines) ==
    IF lines = <<>> THEN <<>> ELSE Head(lines) \o Flatten(Tail(lines))

\* two reports hold the same <<group, count>> records, each as many times
SameRecords(r1, r2) ==
    LET a == Flatten(r1)
        b == Flatten(r2)
    IN  /\ Len(a) = Len(b)
        /\ \A i \in 1..Len(a) :
               Cardinality({j \in 1..Len(a) : a[j] = a[i]})
                   = Cardinality({j \in 1..Len(b) : b[j] = a[i]})

\* C3 (as stated): once loadCurrent has returned on a report, every row has
\* the current that loadCurrent gives it on any other report of the same
\* records in another order; and the OS row has the OS count plus the MBDA
\* count when both are in the report.
C3_OrderIndependent ==
    pc = "display" /\ current_file \in DOMAIN disk =>
        /\ \A r1 \in Reports : \A r2 \in Reports \ {r1} :
               disk[current_file] = Report(r1) /\ SameRecords(r1, r2) =>
                   LET other == CurrentLines(Report(r2), <<>>).raw
                       rows0 == [i \in 1..Len(final) |->
                                    [final[i] EXCEPT !.current = <<0, 0>>]]
                   IN  \A i \in 1..Len(final) :
                           final[i].current
                               = Merge(other, rows0, <<0, 0>>)[i].current
        /\ OS \in DOMAIN raw /\ MBDA \in DOMAIN raw =>
               \A i \in 1..Len(final) :
                   final[i].name = OS =>
                       final[i].current = Add32(raw[OS], raw[MBDA])

\* C4 (as stated): the cell scan of every record line terminates: main is
\* never left inside the while loop of loadCurrent.
C4_ScanTerminates == pc # "hung"

\* C5 (as stated): once loadTarget has returned, the rows are, line by line
\* of the target file, the text left of the first delimiter, the integer
\* written right of it when that integer is not negative, and a current
\* of 0.
C5_TargetAsWritten ==
    pc = "loadCurrent" /\ target_file \in DOMAIN disk =>
        LET lines == disk[target_file]
        IN  /\ Len(final) = Len(lines)
            /\ \A i \in 1..Len(lines) :
                   LET delim   == Find(lines[i], kDelim, 0)
                       written == Stoi(SubSeq(lines[i], delim + 2,
                                              Len(lines[i])))
                   IN  delim # NPOS =>
                           /\ final[i].name = SubSeq(lines[i], 1, delim)
                           /\ final[i].current = <<0, 0>>
                           /\ written.val >= 0 =>
                                  final[i].target = U32(written.val)

Called(f) == \E i \in 1..Len(calls) : calls[i] = f

\* C6 (as stated): a target file that cannot be opened leaves the row
\* collection empty and prints the error; a current file that cannot be
\* opened leaves raw empty and every current 0, prints the error, and the
\* run goes on through display(), which prints the table with its TOTAL row
\* and returns, and main exits with status 0.
C6_MissingFilesContinue ==
    /\ Called("loadTarget") /\ target_file \notin DOMAIN disk
           /\ pc = "loadCurrent" =>
               /\ final = <<>>
               /\ stdout = <<"Error: Could not open file">>
    /\ Called("loadCurrent") /\ current_file \notin DOMAIN disk =>
           /\ raw = <<>>
           /\ pc \in {"display", "exited"}
           /\ \E i \in 1..Len(stdout) : stdout[i] = "Error: Could not open file"
           /\ pc = "display" =>
                  \A i \in 1..Len(final) : final[i].current = <<0, 0>>
           /\ pc = "exited" =>
                  /\ status = 0
                  /\ Len(table) = Len(final)
                  /\ final[Len(final)].name = TOTAL

\* the three steps of main, as far as position p has them called
StepsAt(p) ==
    CASE p = "loadTarget"  -> {<<>>}
      [] p = "loadCurrent" -> {<<"loadTarget">>}
      [] p = "display"     -> {<<"loadTarget", "loadCurrent">>}
      [] p = "exited"      -> {<<"loadTarget", "loadCurrent", "display">>}
      [] OTHER -> {<<"loadTarget">>, <<"loadTarget", "loadCurrent">>,
                   <<"loadTarget", "loadCurrent", "display">>}

UsageExit ==
    /\ pc = "exited"
    /\ status = 0
    /\ stdout = <<"usage">>
    /\ opened = <<>>
    /\ table = <<>>

ArgumentExit ==
    /\ pc = "exited"
    /\ status = 1
    /\ \E i \in 1..Len(stdout) :
           stdout[i] \in {"option -c requires an argument",
                          "option -t requires an argument"}
    /\ opened = <<>>

StepsInOrder ==
    /\ calls \in StepsAt(pc)
    /\ pc = "exited" => status = 0
    /\ pc # "exited" => status = 0 - 1

FirstIsLast(args) ==
    \E f \in {DashC, DashT} :
        /\ args[Len(args)] = f
        /\ \A i \in 1..(Len(args) - 1) : args[i] # f

C8_MergeByName ==
    pc \in {"display", "aborted"} /\ Called("loadCurrent")
           /\ thrown \notin {"invalid_argument", "out_of_range"} =>
        LET lines == IF target_file \in DOMAIN disk THEN disk[target_file]
                     ELSE <<>>
        IN  /\ pc = "display"
            /\ Len(final) = Len(lines)
            /\ \A i \in 1..Len(lines) :
                   /\ final[i].name = TargetLine(lines[i]).cg.name
                   /\ final[i].target = TargetLine(lines[i]).cg.target
                   /\ final[i].current =
                          IF final[i].name \notin DOMAIN raw THEN <<0, 0>>
                          ELSE IF final[i].name = OS /\ MBDA \in DOMAIN raw
                               THEN Add32(raw[OS], raw[MBDA])
                               ELSE raw[final[i].name]

\* C10 (as stated): no entry that is not in raw is ever read, and when raw
\* holds OS and not MBDA the merge leaves the OS row with the OS count.
C10_NoReadAtEnd ==
    /\ ~badRead
    /\ pc = "display" /\ OS \in DOMAIN raw /\ MBDA \notin DOMAIN raw =>
           \A i \in 1..Len(final) :
               final[i].name = OS => final[i].current = raw[OS]

===========================================================================
